---- MODULE Spec2Model ----
(***************************************************************************)
(* State-machine model of the WTM multi-agent workflow core                *)
(* (src/agents/wtm_multi_agent): the ticket slug, the ticket cache of the  *)
(* Jira agent, the quick-action / env merge of the React environment       *)
(* agent, the worktree agent's add/remove/list and the orchestrator's      *)
(* public operations.  Every public operation is synchronous, so each is   *)
(* one atomic action; what the operation did (commands run, agents called, *)
(* result or error) is recorded in the variable last.                      *)
(*                                                                         *)
(* Text that the code inspects character by character (ticket key and      *)
(* summary, branch names) is a sequence of one-character tokens.  Text     *)
(* that the code only passes around (urls, labels, quick actions, env      *)
(* values, stderr) is an opaque TLA+ string.                               *)
(***************************************************************************)
EXTENDS Integers, Sequences, FiniteSets, TLC

VARIABLES
    config,   \* WorkflowConfig.react: [quick_actions, extra_env]
    agents,   \* WorkflowOrchestrator.agents: sequence of agent kinds
    cache,    \* the ticket cache file (JiraConfig.cache_path)
    written,  \* ghost: tickets returned by the suggest that wrote the cache
    ctx,      \* the WorkspaceContext held by the caller, or NoCtx
    last      \* record of the most recent operation

vars == <<config, agents, cache, written, ctx, last>>

\* Python's None where a string is expected (url, path, action, error text).
None == "<None>"

\* Python's None / JSON null where an object is expected (fields.assignee).
JNull == [null |-> TRUE]

\* The empty dict {}.
EmptyDict == [k \in {} |-> ""]

\* dict.get(key, default)
Get(d, k, default) == IF k \in DOMAIN d THEN d[k] ELSE default

\* dict.update(other): keys of other overwrite keys of d.
DictUpdate(d, other) ==
    [k \in (DOMAIN d) \cup (DOMAIN other) |->
        IF k \in DOMAIN other THEN other[k] ELSE d[k]]

(***************************************************************************)
(* Characters and JiraTicket.slug                                          *)
(***************************************************************************)

\* "U+00E9" is e-acute: a non-ASCII letter, alphanumeric for str.isalnum.
Chars == {"A", "a", "b", "7", "-", "_", " ", "!", "/", "U+00E9"}

\* The characters of [a-z0-9_-] within Chars.
SlugChars == {"a", "b", "7", "-", "_"}

\* str.lower, per character
LowerChar(ch) == IF ch = "A" THEN "a" ELSE ch

\* str.isalnum, per character
IsAlnum(ch) == ch \in {"A", "a", "b", "7", "U+00E9"}

\* str.lower
Lower(s) == [i \in 1..Len(s) |-> LowerChar(s[i])]

\* str.replace(" ", "-")
ReplaceSpace(s) == [i \in 1..Len(s) |-> IF s[i] = " " THEN "-" ELSE s[i]]

\* "".join(ch for ch in s if ch.isalnum() or ch in {"-", "_"})
KeepSafe(s) == SelectSeq(s, LAMBDA ch : IsAlnum(ch) \/ ch \in {"-", "_"})

\* The slice bound of slug: [:80].
SlugMax == 80

\* s[:n]
Prefix(s, n) == SubSeq(s, 1, IF Len(s) < n THEN Len(s) ELSE n)

\* JiraTicket.slug
slug(t) ==
    LET normalised == ReplaceSpace(Lower(t.summary))
        safe == KeepSafe(normalised)
    IN  Prefix(Lower(t.key) \o <<"-">> \o safe, SlugMax)

\* s repeated n times
RECURSIVE Rep(_, _)
Rep(s, n) == IF n = 0 THEN <<>> ELSE s \o Rep(s, n - 1)

(***************************************************************************)
(* Tickets, configuration, agent list                                      *)
(***************************************************************************)

\* JiraTicket(key=..., summary=...): url, labels and extra take their defaults.
Ticket(key, summary) ==
    [key |-> key, summary |-> summary, url |-> None, labels |-> <<>>,
     extra |-> EmptyDict]

\* Ticket keys and summaries the callers pass; the long ones exceed SlugMax.
Keys == {<<>>, <<"A", "-", "7">>, <<"A", " ", "7">>, Rep(<<"b">>, SlugMax + 1)}

Summaries ==
    {<<>>, <<"A", " ", "b", "!">>, <<"U+00E9", "_">>, Rep(<<"b", " ">>, SlugMax)}

AllTickets == {Ticket(k, s) : k \in Keys, s \in Summaries}

\* The tickets used by the operations other than the slug itself.
Tickets ==
    {Ticket(<<"A", "-", "7">>, <<"A", " ", "b", "!">>),
     Ticket(<<"A", " ", "7">>, <<"U+00E9", "_">>),
     Ticket(<<>>, <<>>)}

\* Quick-action commands.
Actions == {"a", "b", "c"}

\* Longest list of extra quick actions a caller passes.
MaxExtras == 2

ExtraLists == UNION {[1..n -> Actions] : n \in 0..MaxExtras}

\* ReactConfig.quick_actions values (a configured list may repeat an entry).
ConfigQuickActions == {<<>>, <<"a", "b">>, <<"b", "a", "b">>}

EnvKeys == {"K1", "K2"}

\* ReactConfig.extra_env values.
ConfigEnvs == {EmptyDict, [K1 |-> "configured"]}

ReactConfigs ==
    {[quick_actions |-> q, extra_env |-> e] :
        q \in ConfigQuickActions, e \in ConfigEnvs}

\* WorkflowConfig.repo_root, wtm_binary, coding_agent
RepoRoot == "/repo"
WtmBinary == "wtm"
CodingAssistant == "claude"

\* WorkflowOrchestrator._default_agents
_default_agents(jiraConfigured) ==
    LET base == <<"worktree", "react", "coding">>
    IN  IF jiraConfigured THEN <<"jira">> \o base ELSE base

\* WorkflowOrchestrator.__post_init__
__post_init__(given, jiraConfigured) ==
    IF given = <<>> THEN _default_agents(jiraConfigured) ELSE given

\* Agent lists handed to the orchestrator's constructor (<<>>: none given).
GivenAgents ==
    {<<>>,
     <<"worktree", "react">>,
     <<"worktree", "coding">>,
     <<"react", "coding">>,
     <<"react">>,
     <<"coding", "react", "worktree", "jira">>}

\* WorkflowOrchestrator._agent_of_type: is an agent of the kind in the list
_agent_of_type(kind) == \E i \in 1..Len(agents) : agents[i] = kind

(***************************************************************************)
(* ReactEnvironmentAgent                                                   *)
(***************************************************************************)

\* list(dict.fromkeys(seq)): drop every entry that occurred before.
RECURSIVE DedupFirst(_)
DedupFirst(seq) ==
    IF seq = <<>> THEN <<>>
    ELSE LET init == DedupFirst(SubSeq(seq, 1, Len(seq) - 1))
             x == seq[Len(seq)]
         IN  IF \E i \in 1..Len(init) : init[i] = x THEN init
             ELSE Append(init, x)

\* As MergeActions, with the extras ahead of the configured actions.
MergeActionsExtrasFirst(configured, extra_actions) ==
    DedupFirst(extra_actions \o configured)

\* [*self.config.quick_actions, *extra_actions] merged
MergeActions(configured, extra_actions) ==
    DedupFirst(configured \o extra_actions)

\* context.env.update(self.config.extra_env)
MergeEnv(env, extra_env) == DictUpdate(env, extra_env)

\* ReactEnvironmentAgent.handle: payload -> the context after the call.
\* payload is a dict; extra_actions defaults to [].
ReactEnvironmentAgent_handle(payload, context) ==
    LET extra_actions == Get(payload, "extra_actions", <<>>)
        merged_actions == MergeActions(config.quick_actions, extra_actions)
    IN  [context EXCEPT !.quick_actions = merged_actions,
                        !.env = MergeEnv(@, config.extra_env)]

(***************************************************************************)
(* WorkflowOrchestrator.initialise_workspace / update_quick_actions        *)
(***************************************************************************)

NoCtx == [none |-> TRUE]

\* The number of "/" a path segment starts with
RECURSIVE LeadingSlashes(_)
LeadingSlashes(s) ==
    IF s = <<>> \/ s[1] # "/" THEN 0 ELSE 1 + LeadingSlashes(Tail(s))

\* pathlib's parsing of a relative segment: a "/" that another "/" follows,
\* and a "/" at the end, are dropped.
CollapseSlashes(s) ==
    LET kept == {i \in 1..Len(s) :
                    ~(s[i] = "/" /\ (i = Len(s) \/ s[i + 1] = "/"))}
        nth(j) == CHOOSE i \in kept : Cardinality({k \in kept : k <= i}) = j
    IN  [j \in 1..Cardinality(kept) |-> s[nth(j)]]

\* repo_root / ".wtm" / "workspaces" / ticket.slug, as PurePosixPath joins:
\* a segment that starts with "/" replaces all that precedes it (exactly two
\* leading slashes are kept as the root "//").
WorktreeDir(t) ==
    LET n == LeadingSlashes(slug(t))
        rest == CollapseSlashes(SubSeq(slug(t), n + 1, Len(slug(t))))
    IN  IF n = 0
        THEN [base |-> RepoRoot, parts |-> <<".wtm", "workspaces">>,
              name |-> rest]
        ELSE [base |-> IF n = 2 THEN "//" ELSE "/", parts |-> <<>>,
              name |-> rest]

\* The WorkspaceContext(...) constructed in initialise_workspace.
FreshContext(t) ==
    [repo_root |-> RepoRoot,
     worktree_path |-> WorktreeDir(t),
     ticket |-> t,
     quick_actions |-> config.quick_actions,
     env |-> config.extra_env]

\* As EnrichLoop, calling no agent.
EnrichLoopSkipped(i, st) == st

\* for agent in self.agents: if isinstance(agent, ReactEnvironmentAgent): ...
\* from agent i on; st is [context, calls] so far.
RECURSIVE EnrichLoop(_, _)
EnrichLoop(i, st) ==
    IF i > Len(agents) THEN st
    ELSE IF agents[i] = "react"
         THEN EnrichLoop(i + 1,
                  [context |-> ReactEnvironmentAgent_handle(EmptyDict, st.context),
                   calls |-> Append(st.calls,
                                    [agent |-> "react", payload |-> EmptyDict])])
         ELSE EnrichLoop(i + 1, st)

\* initialise_workspace(ticket): the context returned and the agents called.
InitialiseRun(t) == EnrichLoop(1, [context |-> FreshContext(t), calls |-> <<>>])

\* The caller's  context = orchestrator.initialise_workspace(ticket)
initialise_workspace(t) ==
    LET made == InitialiseRun(t)
    IN  /\ ctx' = made.context
        /\ last' = [op |-> "initialise_workspace", ticket |-> t,
                    calls |-> made.calls, error |-> None]
        /\ UNCHANGED <<config, agents, cache, written>>

\* update_quick_actions(actions, context) with the context the caller holds
\* (None when the caller holds none).
update_quick_actions(actions) ==
    /\ IF ctx = NoCtx
       THEN /\ last' = [op |-> "update_quick_actions", extras |-> actions,
                        calls |-> <<>>, error |-> "ValueError"]
            /\ ctx' = ctx
       ELSE IF _agent_of_type("react")
       THEN /\ ctx' = ReactEnvironmentAgent_handle([extra_actions |-> actions], ctx)
            /\ last' = [op |-> "update_quick_actions", extras |-> actions,
                        calls |-> <<[agent |-> "react",
                                     payload |-> [extra_actions |-> actions]]>>,
                        error |-> None]
       ELSE /\ ctx' = ctx
            /\ last' = [op |-> "update_quick_actions", extras |-> actions,
                        calls |-> <<>>, error |-> None]
    /\ UNCHANGED <<config, agents, cache, written>>

\* The caller writes context.env[k] = "caller" on the context it holds
\* (WorkspaceContext.env is a plain mutable dict).
CallerSetEnv(k) ==
    /\ ctx # NoCtx
    /\ ctx' = [ctx EXCEPT !.env = DictUpdate(@, [x \in {k} |-> "caller"])]
    /\ last' = [op |-> "caller_set_env", envkey |-> k, error |-> None]
    /\ UNCHANGED <<config, agents, cache, written>>

(***************************************************************************)
(* utils/cli.py: external processes                                        *)
(***************************************************************************)

\* A JSON document: a list of items, one object (held as its only item) or
\* null.  An item is an object (v: its dict) or a string.
Obj(v) == [t |-> "obj", v |-> v]
StrItem == [t |-> "str", v |-> EmptyDict]
ListDoc(items) == [t |-> "list", items |-> items]
ObjectDoc(v) == [t |-> "object", items |-> <<Obj(v)>>]
NullDoc == [t |-> "null", items |-> <<>>]

\* Text of a file or of a process's stdout: empty, whitespace only, not JSON,
\* or the JSON text of doc.
Text(kind) == [kind |-> kind, doc |-> NullDoc]
JsonText(doc) == [kind |-> "json", doc |-> doc]

\* An external command line: program, subcommand, its target (branch name or
\* ticket key) and optional argument.  The tracker's --site/--user/--token/
\* --limit arguments are fixed by the configuration and left out.
Cmd(prog, verb, target, opt) ==
    [prog |-> prog, verb |-> verb, target |-> target, opt |-> opt]

NoCliError == [none |-> TRUE]

\* CLIError(command, exit_code, stdout, stderr)
CLIError(command, proc) ==
    [command |-> command, exit_code |-> proc.rc, stdout |-> proc.stdout,
     stderr |-> proc.stderr]

\* str.strip() of stdout
Strip(out) == IF out.kind = "blank" THEN Text("empty") ELSE out

\* As run, with a non-zero exit status swallowed.
RunUnchecked(command, proc) ==
    [error |-> None, cli_error |-> NoCliError, output |-> Strip(proc.stdout)]

\* cli.run: proc is what subprocess.run returns for the command.
run(command, proc) ==
    IF proc.rc # 0
    THEN [error |-> "CLIError", cli_error |-> CLIError(command, proc),
          output |-> Text("empty")]
    ELSE [error |-> None, cli_error |-> NoCliError,
          output |-> Strip(proc.stdout)]

\* cli.run_json: json.loads(output) if output else None
run_json(command, proc) ==
    LET r == run(command, proc)
    IN  IF r.error # None
        THEN [error |-> r.error, cli_error |-> r.cli_error, doc |-> NullDoc]
        ELSE IF r.output.kind = "empty"
        THEN [error |-> None, cli_error |-> NoCliError, doc |-> NullDoc]
        ELSE IF r.output.kind = "json"
        THEN [error |-> None, cli_error |-> NoCliError, doc |-> r.output.doc]
        ELSE [error |-> "JSONDecodeError", cli_error |-> NoCliError,
              doc |-> NullDoc]

\* Python truthiness of a parsed JSON document
Truthy(doc) ==
    /\ doc.t # "null"
    /\ doc.t = "list" => doc.items # <<>>
    /\ doc.t = "object" => DOMAIN doc.items[1].v # {}

\* Exit codes and stderr texts of a failing process.
FailCodes == {1, 2}
StderrTexts == {"", "not found"}

ProcFails ==
    {[rc |-> r, stdout |-> o, stderr |-> e] :
        r \in FailCodes, o \in {Text("empty"), Text("garbage")},
        e \in StderrTexts}

\* A process that exits with status 0 and prints out.
ProcOk(out) == [rc |-> 0, stdout |-> out, stderr |-> ""]

(***************************************************************************)
(* JiraAgent                                                               *)
(***************************************************************************)

\* Raw tracker records: {key, self, fields: {summary, labels, status: {name},
\* assignee: {displayName}}}, some with fields missing or null.
RawFull ==
    [key |-> <<"A", "-", "7">>, self |-> "https://tracker/A-7",
     fields |-> [summary |-> <<"A", " ", "b", "!">>, labels |-> <<"ui">>,
                 status |-> [name |-> "Open"],
                 assignee |-> [displayName |-> "Ann"]]]
RawBare == [key |-> <<"b">>]
RawUnassigned ==
    [key |-> <<"b", "-", "7">>,
     fields |-> [summary |-> <<"b">>, assignee |-> JNull]]
RawNullStatus == [key |-> <<"a">>, fields |-> [status |-> JNull]]

TrackerItems == {Obj(RawFull), Obj(RawBare), Obj(RawUnassigned)}

\* Longest ticket list the tracker returns.
MaxTickets == 2

TrackerDocs ==
    {ListDoc(items) : items \in UNION {[1..n -> TrackerItems] : n \in 0..MaxTickets}}
    \cup {NullDoc, ObjectDoc(EmptyDict), ObjectDoc(RawFull),
          ListDoc(<<Obj(RawNullStatus)>>), ListDoc(<<Obj(RawBare), StrItem>>)}

TrackerProcs ==
    ProcFails
    \cup {ProcOk(Text(k)) : k \in {"empty", "blank", "garbage"}}
    \cup {ProcOk(JsonText(d)) : d \in TrackerDocs}

\* Does JiraAgent._ticket_from_json(data) raise (status is null: None.get)
TicketFromJsonRaises(data) ==
    Get(Get(data, "fields", EmptyDict), "status", EmptyDict) = JNull

\* JiraAgent._ticket_from_json
_ticket_from_json(data) ==
    LET fields == Get(data, "fields", EmptyDict)
        assignee == Get(fields, "assignee", JNull)
    IN  [key |-> Get(data, "key", <<>>),
         summary |-> Get(fields, "summary", <<>>),
         url |-> Get(data, "self", None),
         labels |-> Get(fields, "labels", <<>>),
         extra |-> [status |-> Get(Get(fields, "status", EmptyDict), "name", ""),
                    assignee |-> Get(IF assignee = JNull THEN EmptyDict
                                     ELSE assignee, "displayName", "")]]

\* [self._ticket_from_json(item) for item in doc]: the error raised, if any
\* (iterating None; .get on a string item, on a key of an object that is
\* iterated, or on a null status).
NormaliseError(doc) ==
    IF doc.t = "null" THEN "TypeError"
    ELSE IF doc.t = "object"
    THEN IF DOMAIN doc.items[1].v = {} THEN None ELSE "AttributeError"
    ELSE IF \E i \in 1..Len(doc.items) :
                \/ doc.items[i].t = "str"
                \/ TicketFromJsonRaises(doc.items[i].v)
         THEN "AttributeError"
         ELSE None

\* [self._ticket_from_json(item) for item in doc], when it does not raise
Normalise(doc) ==
    IF doc.t = "object" THEN <<>>
    ELSE [i \in 1..Len(doc.items) |-> _ticket_from_json(doc.items[i].v)]

\* json.dump([ticket.__dict__ for ticket in tickets], handle): the file's text
DumpTickets(tickets) ==
    JsonText(ListDoc([i \in 1..Len(tickets) |-> Obj(tickets[i])]))

NoFile == [kind |-> "absent", doc |-> NullDoc]

\* As CacheReadError, had the handler been `except json.JSONDecodeError`.
CacheReadErrorJsonOnly(file) ==
    IF file.kind # "json" THEN "JSONDecodeError" ELSE None

\* Reading the cache in _fetch: the error raised inside the try block, if any
CacheReadError(file) ==
    IF file.kind # "json" THEN "JSONDecodeError" ELSE NormaliseError(file.doc)

ListCommand == Cmd("acli", "jira issue list", <<>>, "--json")

\* JiraAgent._fetch on cache file `file`, the tracker process answering proc.
\* Result: the file afterwards, tickets returned, error raised, commands run
\* and what each answered, whether the cache was deleted, whether the cache
\* file was (re)written.
_fetch(file, proc) ==
    LET hit == file.kind # "absent" /\ CacheReadError(file) = None
        deleted == file.kind # "absent" /\ ~hit
        r == run_json(ListCommand, proc)
        data == IF Truthy(r.doc) THEN r.doc ELSE ListDoc(<<>>)
        base == [file |-> IF deleted THEN NoFile ELSE file, tickets |-> <<>>,
                 error |-> None, cli_error |-> NoCliError,
                 cmds |-> <<ListCommand>>, procs |-> <<proc>>,
                 deleted |-> deleted, wrote |-> FALSE, source |-> "live"]
    IN  IF hit
        THEN [base EXCEPT !.tickets = Normalise(file.doc), !.cmds = <<>>,
                          !.procs = <<>>, !.source = "cache"]
        ELSE IF r.error # None
        THEN [base EXCEPT !.error = r.error, !.cli_error = r.cli_error]
        ELSE IF NormaliseError(data) # None
        THEN [base EXCEPT !.error = NormaliseError(data)]
        ELSE [base EXCEPT !.tickets = Normalise(data),
                          !.file = DumpTickets(Normalise(data)),
                          !.wrote = TRUE]

GetCommand(key) == Cmd("acli", "jira issue get", key, "--json")

\* JiraAgent._fetch_ticket(key), the tracker process answering proc.
_fetch_ticket(key, proc) ==
    LET r == run_json(GetCommand(key), proc)
        data == IF Truthy(r.doc) THEN r.doc ELSE ObjectDoc(EmptyDict)
        base == [ticket |-> Ticket(<<>>, <<>>), error |-> None,
                 cli_error |-> NoCliError, cmds |-> <<GetCommand(key)>>,
                 procs |-> <<proc>>]
    IN  IF r.error # None
        THEN [base EXCEPT !.error = r.error, !.cli_error = r.cli_error]
        ELSE IF data.t = "list" \/ TicketFromJsonRaises(data.items[1].v)
        THEN [base EXCEPT !.error = "AttributeError"]
        ELSE [base EXCEPT !.ticket = _ticket_from_json(data.items[1].v)]

NotWritten == [none |-> TRUE]

\* One agent.handle(payload, context) call.
Call(agent, payload) == [agent |-> agent, payload |-> payload]

\* What an operation that did nothing yet has recorded.
Outcome(op) ==
    [op |-> op, error |-> None, named |-> None, cli_error |-> NoCliError,
     cmds |-> <<>>, procs |-> <<>>, calls |-> <<>>]

\* As JiraAction, with an unknown action falling back to suggest.
JiraActionFallback(payload) ==
    IF Get(payload, "action", "suggest") = "detail" THEN "detail" ELSE "suggest"

\* action = payload.get("action", "suggest")
JiraAction(payload) == Get(payload, "action", "suggest")

\* JiraAgent.handle(payload, context): the context is not used.
\* Result: [out: the record of the call, file: the cache file afterwards,
\* written: the ghost afterwards].
JiraAgent_handle(payload, file, ghost, proc) ==
    LET action == JiraAction(payload)
        out == [Outcome("jira.handle") @@
                [payload |-> payload, cache_before |-> file,
                 tickets |-> <<>>, ticket |-> Ticket(<<>>, <<>>),
                 deleted |-> FALSE, wrote |-> FALSE, source |-> "none"]
                EXCEPT !.calls = <<Call("jira", payload)>>]
        keep == [file |-> file, written |-> ghost]
    IN  IF action = "suggest"
        THEN LET f == _fetch(file, proc)
             IN  [out |-> [out EXCEPT !.tickets = f.tickets,
                                      !.error = f.error,
                                      !.cli_error = f.cli_error,
                                      !.cmds = f.cmds,
                                      !.procs = f.procs,
                                      !.deleted = f.deleted,
                                      !.wrote = f.wrote,
                                      !.source = f.source],
                  file |-> f.file,
                  written |-> IF f.wrote THEN [tickets |-> f.tickets]
                              ELSE IF f.deleted THEN NotWritten ELSE ghost]
        ELSE IF action = "detail"
        THEN IF "key" \notin DOMAIN payload
             THEN keep @@ [out |-> [out EXCEPT !.error = "KeyError",
                                               !.named = "key"]]
             ELSE LET g == _fetch_ticket(payload.key, proc)
                  IN  keep @@ [out |-> [out EXCEPT !.ticket = g.ticket,
                                                   !.error = g.error,
                                                   !.cli_error = g.cli_error,
                                                   !.cmds = g.cmds,
                                                   !.procs = g.procs,
                                                   !.source = "live"]]
        ELSE keep @@ [out |-> [out EXCEPT !.error = "ValueError",
                                          !.named = action]]

\* Tracker answers for the calls whose ticket lists are not looked at.
FewTrackerProcs ==
    {[rc |-> 1, stdout |-> Text("garbage"), stderr |-> "not found"],
     [rc |-> 2, stdout |-> Text("empty"), stderr |-> ""],
     ProcOk(Text("empty")), ProcOk(Text("garbage")),
     ProcOk(JsonText(ListDoc(<<Obj(RawFull)>>))),
     ProcOk(JsonText(ObjectDoc(RawFull)))}

\* Payloads handed to JiraAgent.handle.
JiraPayloads ==
    {EmptyDict, [action |-> "suggest"], [action |-> "detail"],
     [action |-> "detail", key |-> <<"A", "-", "7">>],
     [action |-> "add"], [action |-> "bogus"], [action |-> None],
     [action |-> "Suggest"]}

\* A direct call of the Jira agent's handle.
JiraCall(payload, proc) ==
    /\ _agent_of_type("jira")
    /\ LET r == JiraAgent_handle(payload, cache, written, proc)
       IN  /\ last' = r.out
           /\ cache' = r.file
           /\ written' = r.written
    /\ UNCHANGED <<config, agents, ctx>>

\* WorkflowOrchestrator.fetch_ticket_suggestions
fetch_ticket_suggestions(proc) ==
    /\ IF ~_agent_of_type("jira")
       THEN /\ last' = Outcome("fetch_ticket_suggestions") @@
                            [tickets |-> <<>>, source |-> "none"]
            /\ UNCHANGED <<cache, written>>
       ELSE LET r == JiraAgent_handle([action |-> "suggest"], cache, written, proc)
            IN  /\ last' = [r.out EXCEPT !.op = "fetch_ticket_suggestions"]
                /\ cache' = r.file
                /\ written' = r.written
    /\ UNCHANGED <<config, agents, ctx>>

(***************************************************************************)
(* WorktreeManagerAgent                                                    *)
(***************************************************************************)

\* A path as text: absolute or not, and its components as written ("" comes
\* from a doubled or trailing slash).
PathText(abs, parts) == [abs |-> abs, parts |-> parts]

NoPath == [none |-> TRUE]

\* str(Path(text)): empty and "." components are dropped; "" becomes ".".
PathStr(text) ==
    LET kept == SelectSeq(text.parts, LAMBDA c : c # "" /\ c # ".")
    IN  IF kept = <<>> /\ ~text.abs THEN PathText(FALSE, <<".">>)
        ELSE PathText(text.abs, kept)

\* One record of `wtm worktree list --json`: {branch, path}.
WorktreeRecord(branch, path) == Obj([branch |-> branch, path |-> path])

\* The ticket whose slug the external tool lists as a branch.
ListedTicket == Ticket(<<"A", "-", "7">>, <<"A", " ", "b", "!">>)

\* Records the external tool lists: branch "a" at /w/x/ and at /w/y, and
\* the listed ticket's slug at /w/y.
ListedRecords ==
    {WorktreeRecord(<<"a">>, PathText(TRUE, <<"w", "x", "">>)),
     WorktreeRecord(<<"a">>, PathText(TRUE, <<"w", "y">>)),
     WorktreeRecord(slug(ListedTicket), PathText(TRUE, <<"w", "y">>))}

\* Longest worktree listing the external tool prints.
MaxList == 2

Listings == UNION {[1..n -> ListedRecords] : n \in 0..MaxList}

\* A failing process, for the commands of the worktree tool.
WtmFails ==
    {[rc |-> 1, stdout |-> Text("garbage"), stderr |-> "not found"],
     [rc |-> 2, stdout |-> Text("empty"), stderr |-> ""]}

\* What the single command of a remove or a list may answer.
SingleProcs ==
    WtmFails
    \cup {ProcOk(Text(k)) : k \in {"empty", "garbage"}}
    \cup {ProcOk(JsonText(ListDoc(<<r>>))) : r \in ListedRecords}

\* What `wtm worktree list --json` may answer.
ListProcs ==
    WtmFails
    \cup {ProcOk(Text(k)) : k \in {"empty", "garbage"}}
    \cup {ProcOk(JsonText(ListDoc(l))) : l \in Listings}
    \cup {ProcOk(JsonText(ListDoc(<<StrItem>>)))}

\* What the commands of one add may answer, in order: the add command, then
\* the list command (which is not run when the add command fails).
AddProcs ==
    {<<f, ProcOk(Text("empty"))>> : f \in WtmFails}
    \cup {<<ProcOk(Text("blank")), l>> : l \in ListProcs}

\* What the commands of one plan may answer (listings of at most one record:
\* plan does not use the path that add looks up).
PlanProcs ==
    {<<f, ProcOk(Text("empty"))>> : f \in WtmFails}
    \cup {<<ProcOk(Text("blank")), l>> : l \in SingleProcs}

WtmListCommand == Cmd(WtmBinary, "worktree list", <<>>, "--json")

\* WorktreeManagerAgent._list, the tool answering proc
\* (worktrees: the document `result or []`).
_list(proc) ==
    LET r == run_json(WtmListCommand, proc)
    IN  [error |-> r.error, cli_error |-> r.cli_error,
         worktrees |-> IF r.error = None /\ Truthy(r.doc) THEN r.doc
                       ELSE ListDoc(<<>>)]

\* As FirstMatch, taking the last matching record.
RECURSIVE LastMatch(_, _)
LastMatch(items, branch) ==
    IF items = <<>> THEN NoPath
    ELSE IF items[Len(items)].v.branch = branch
         THEN PathStr(items[Len(items)].v.path)
         ELSE LastMatch(SubSeq(items, 1, Len(items) - 1), branch)

\* next((Path(item["path"]) for item in worktrees if item["branch"] == branch),
\* None), then str(...) of it
RECURSIVE FirstMatch(_, _)
FirstMatch(items, branch) ==
    IF items = <<>> THEN NoPath
    ELSE IF items[1].v.branch = branch THEN PathStr(items[1].v.path)
         ELSE FirstMatch(Tail(items), branch)

\* payload.get("branch") or context.ticket.slug
BranchOf(payload, context) ==
    IF Get(payload, "branch", <<>>) # <<>> THEN payload.branch
    ELSE slug(context.ticket)

\* WorktreeManagerAgent.handle(payload, context); procs are the answers of
\* the commands it runs, in order.
WorktreeManagerAgent_handle(payload, context, procs) ==
    LET action == Get(payload, "action", None)
        branch == BranchOf(payload, context)
        out == [Outcome("worktree.handle") @@
                [payload |-> payload, ticket |-> context.ticket,
                 branch |-> <<>>, path |-> NoPath, removed |-> FALSE,
                 worktrees |-> ListDoc(<<>>)]
                EXCEPT !.calls = <<Call("worktree", payload)>>]
    IN  IF action = "add"
        THEN LET cmd == Cmd(WtmBinary, "worktree add", branch,
                            Get(payload, "path", ""))
                 r == run(cmd, procs[1])
             IN  IF r.error # None
                 THEN [out EXCEPT !.cmds = <<cmd>>, !.procs = <<procs[1]>>,
                                  !.error = r.error, !.cli_error = r.cli_error]
                 ELSE LET l == _list(procs[2])
                          ran == [out EXCEPT !.cmds = <<cmd, WtmListCommand>>,
                                             !.procs = <<procs[1], procs[2]>>]
                      IN  IF l.error # None
                          THEN [ran EXCEPT !.error = l.error,
                                           !.cli_error = l.cli_error]
                          ELSE IF \E i \in 1..Len(l.worktrees.items) :
                                      l.worktrees.items[i].t # "obj"
                          THEN [ran EXCEPT !.error = "TypeError"]
                          ELSE [ran EXCEPT
                                   !.branch = branch,
                                   !.path = FirstMatch(l.worktrees.items, branch)]
        ELSE IF action = "remove"
        THEN LET cmd == Cmd(WtmBinary, "worktree remove", branch,
                            IF Get(payload, "force", FALSE) THEN "--force"
                            ELSE "")
                 r == run(cmd, procs[1])
                 ran == [out EXCEPT !.cmds = <<cmd>>, !.procs = <<procs[1]>>]
             IN  IF r.error # None
                 THEN [ran EXCEPT !.error = r.error, !.cli_error = r.cli_error]
                 ELSE [ran EXCEPT !.branch = branch, !.removed = TRUE]
        ELSE IF action = "list"
        THEN LET l == _list(procs[1])
             IN  [out EXCEPT !.cmds = <<WtmListCommand>>,
                             !.procs = <<procs[1]>>,
                             !.error = l.error, !.cli_error = l.cli_error,
                             !.worktrees = l.worktrees]
        ELSE [out EXCEPT !.error = "ValueError", !.named = action]

\* Payloads handed to WorktreeManagerAgent.handle.
AddPayloads ==
    {[action |-> "add"], [action |-> "add", branch |-> <<>>],
     [action |-> "add", branch |-> <<"a">>],
     [action |-> "add", branch |-> <<"A">>],
     [action |-> "add", branch |-> <<"a">>, path |-> "hint"]}

OtherWorktreePayloads ==
    {[action |-> "remove"], [action |-> "remove", branch |-> <<"a">>,
                             force |-> TRUE],
     [action |-> "list"], [action |-> "suggest"], [action |-> "bogus"],
     [action |-> None], [action |-> "Add"], EmptyDict}

\* Tickets of the contexts handed to the worktree agent directly.
WorktreeTickets == {ListedTicket, Ticket(<<>>, <<>>)}

\* A direct call of the worktree agent's handle, with a context the caller
\* built for ticket t.
WorktreeCall(payload, t, procs) ==
    /\ _agent_of_type("worktree")
    /\ last' = WorktreeManagerAgent_handle(payload, InitialiseRun(t).context, procs)
    /\ UNCHANGED <<config, agents, cache, written, ctx>>

(***************************************************************************)
(* WorkspaceContext.to_prompt, CodingAgent, WorkflowOrchestrator.plan      *)
(* Rendered text is a sequence of tokens (strings and characters).         *)
(***************************************************************************)

\* "\n".join(lines)
RECURSIVE JoinLines(_)
JoinLines(lines) ==
    IF lines = <<>> THEN <<>>
    ELSE IF Len(lines) = 1 THEN lines[1]
    ELSE lines[1] \o <<"\n">> \o JoinLines(Tail(lines))

\* The env keys in sorted order.
KeyOrder == <<"K1", "K2">>

\* The components before a path's last one, each followed by "/"
RECURSIVE JoinParts(_)
JoinParts(parts) ==
    IF parts = <<>> THEN <<>>
    ELSE <<parts[1], "/">> \o JoinParts(Tail(parts))

\* str(path) of a context's worktree_path
PathTokens(path) ==
    IF path.parts = <<>> THEN <<path.base>> \o path.name
    ELSE <<path.base, "/">> \o JoinParts(path.parts) \o path.name

\* WorkspaceContext.to_prompt
to_prompt(context) ==
    LET actions == JoinLines([i \in 1..Len(context.quick_actions) |->
                                 <<"- ", context.quick_actions[i]>>])
        keys == SelectSeq(KeyOrder, LAMBDA k : k \in DOMAIN context.env)
        env_lines == JoinLines([i \in 1..Len(keys) |->
                                   <<keys[i], "=", context.env[keys[i]]>>])
    IN  <<"Repository root: ", context.repo_root, "\n", "Worktree path: ">>
        \o PathTokens(context.worktree_path)
        \o <<"\n", "Ticket: ">> \o context.ticket.key \o <<" - ">>
        \o context.ticket.summary
        \o <<"\n", "Quick actions:\n">>
        \o (IF actions = <<>> THEN <<"  (none)">> ELSE actions)
        \o <<"\n", "Environment:\n">>
        \o (IF env_lines = <<>> THEN <<"  (none)">> ELSE env_lines)

\* CodingAgent.handle: the mapping {prompt, assistant} returned
CodingAgent_handle(payload, context) ==
    LET goal == Get(payload, "goal", <<"Implement the requested feature">>)
    IN  [prompt |-> goal \o <<"\n\nContext:\n">> \o to_prompt(context)
                    \o <<"\n\nPlease plan the changes, execute them, and report status.">>,
         assistant |-> Get(payload, "assistant", "coding-agent")]

NoPlan == [none |-> TRUE]

\* WorkflowOrchestrator.plan(ticket); procs are the answers of the external
\* commands it runs, in order.
PlanRun(t, procs) ==
    LET init == InitialiseRun(t)
        context == init.context
        addPayload == [action |-> "add", branch |-> slug(t)]
        codingPayload == [goal |-> <<"Implement Jira ticket ">> \o t.key,
                          assistant |-> CodingAssistant]
        out == [Outcome("plan") @@
                [ticket |-> t, context |-> context, plan |-> NoPlan,
                 path |-> NoPath]
                EXCEPT !.calls = init.calls]
        add == WorktreeManagerAgent_handle(addPayload, context, procs)
        afterAdd == IF _agent_of_type("worktree")
                    THEN [out EXCEPT
                             !.calls = @ \o <<Call("worktree", addPayload)>>,
                             !.cmds = add.cmds, !.procs = add.procs,
                             !.error = add.error, !.cli_error = add.cli_error,
                             !.path = add.path]
                    ELSE out
    IN  IF afterAdd.error # None THEN afterAdd
        ELSE IF ~_agent_of_type("coding")
        THEN [afterAdd EXCEPT !.error = "RuntimeError",
                              !.named = "Coding agent is not configured"]
        ELSE [afterAdd EXCEPT
                 !.calls = @ \o <<Call("coding", codingPayload)>>,
                 !.plan = CodingAgent_handle(codingPayload, context)]

\* The caller's  plan = orchestrator.plan(ticket)
plan(t, procs) ==
    /\ last' = PlanRun(t, procs)
    /\ UNCHANGED <<config, agents, cache, written, ctx>>

(***************************************************************************)
(* Initial states and specifications                                       *)
(***************************************************************************)

\* Cache files found when the program starts: none, not JSON, JSON of the
\* wrong shape, raw tracker records, an earlier run's normalised records.
InitialCaches ==
    {NoFile, Text("garbage"), Text("empty"),
     JsonText(NullDoc), JsonText(ListDoc(<<StrItem>>)),
     JsonText(ObjectDoc(RawFull)), JsonText(ObjectDoc(EmptyDict)),
     JsonText(ListDoc(<<Obj(RawNullStatus)>>)),
     JsonText(ListDoc(<<>>)), JsonText(ListDoc(<<Obj(RawFull)>>)),
     DumpTickets(<<_ticket_from_json(RawBare)>>)}

\* The state after the orchestrator is constructed: any configuration, any
\* agent list, whatever cache file is on disk, no context built yet.
Init ==
    /\ config \in ReactConfigs
    /\ \E given \in GivenAgents, jiraConfigured \in BOOLEAN :
           agents = __post_init__(given, jiraConfigured)
    /\ cache \in InitialCaches
    /\ written = NotWritten
    /\ ctx = NoCtx
    /\ last = Outcome("init")

\* The configuration the operations that do not read it run under.
PlainConfig == [quick_actions |-> <<"a", "b">>, extra_env |-> EmptyDict]

\* Quick actions and env: the cache file plays no part.
InitEnv == Init /\ cache = NoFile

\* Ticket cache: the quick-action configuration plays no part.
InitJira ==
    /\ Init
    /\ config = PlainConfig
    /\ agents \in {_default_agents(TRUE), _default_agents(FALSE)}

\* Worktree agent: neither the configuration nor the cache plays a part.
InitWorktree ==
    /\ Init
    /\ config = PlainConfig
    /\ cache = NoFile
    /\ agents = _default_agents(FALSE)

NextWorktree ==
    \/ \E payload \in AddPayloads, t \in WorktreeTickets, procs \in AddProcs :
           WorktreeCall(payload, t, procs)
    \/ \E payload \in OtherWorktreePayloads, t \in WorktreeTickets,
          proc \in SingleProcs :
           WorktreeCall(payload, t, <<proc>>)

NextSlug == \E t \in AllTickets : initialise_workspace(t)

\* plan and initialise_workspace: the cache plays no part.
InitPlan == Init /\ cache = NoFile

NextPlan ==
    \/ \E t \in Tickets, procs \in PlanProcs : plan(t, procs)
    \/ \E t \in Tickets : initialise_workspace(t)

\* Failures of external commands in plan and suggest.
InitFailures ==
    /\ Init
    /\ config = PlainConfig
    /\ agents \in {_default_agents(TRUE), <<"jira", "worktree", "react">>}
    /\ cache \in {NoFile, Text("garbage"), JsonText(ListDoc(<<Obj(RawFull)>>))}

NextFailures ==
    \/ \E t \in Tickets, procs \in PlanProcs : plan(t, procs)
    \/ \E proc \in FewTrackerProcs : fetch_ticket_suggestions(proc)

\* Direct calls of the two multi-action agents.
InitAgents ==
    /\ Init
    /\ config = PlainConfig
    /\ agents = _default_agents(TRUE)
    /\ cache \in {NoFile, Text("garbage"), JsonText(ListDoc(<<Obj(RawFull)>>))}

NextAgents ==
    \/ \E payload \in JiraPayloads, proc \in FewTrackerProcs :
           JiraCall(payload, proc)
    \/ \E payload \in AddPayloads \cup OtherWorktreePayloads,
          t \in WorktreeTickets, procs \in PlanProcs :
           WorktreeCall(payload, t, procs)

\* The prompt of plan after earlier calls: the cache plays no part.
InitPrompt == Init /\ cache = NoFile

\* Tickets the front end builds from its arguments: a tracker-style key, a
\* key that starts with "/", and a key holding "//".
PromptTickets ==
    {Ticket(<<"A", "-", "7">>, <<"A", " ", "b", "!">>),
     Ticket(<<"/", "b">>, <<"a">>),
     Ticket(<<"a", "/", "/", "b">>, <<>>)}

\* --extra-action values of the front end.
PromptExtras == {<<>>, <<"c">>, <<"c", "a">>}

NextPrompt ==
    \/ \E t \in PromptTickets : initialise_workspace(t)
    \/ \E actions \in PromptExtras : update_quick_actions(actions)
    \/ \E t \in PromptTickets, procs \in PlanProcs : plan(t, procs)

NextEnv ==
    \/ \E t \in Tickets : initialise_workspace(t)
    \/ \E actions \in ExtraLists : update_quick_actions(actions)
    \/ \E k \in EnvKeys : CallerSetEnv(k)

NextJira ==
    \/ \E payload \in JiraPayloads, proc \in TrackerProcs : JiraCall(payload, proc)
    \/ \E proc \in TrackerProcs : fetch_ticket_suggestions(proc)

SpecEnv == InitEnv /\ [][NextEnv]_vars

SpecJira == InitJira /\ [][NextJira]_vars

SpecWorktree == InitWorktree /\ [][NextWorktree]_vars

SpecSlug == InitEnv /\ [][NextSlug]_vars

SpecPlan == InitPlan /\ [][NextPlan]_vars

SpecFailures == InitFailures /\ [][NextFailures]_vars

SpecAgents == InitAgents /\ [][NextAgents]_vars

SpecPrompt == InitPrompt /\ [][NextPrompt]_vars

(***************************************************************************)
(* Claims                                                                  *)
(***************************************************************************)

\* The last operation was a `suggest` of the Jira agent.
IsSuggest ==
    /\ last.op \in {"jira.handle", "fetch_ticket_suggestions"}
    /\ Len(last.calls) = 1
    /\ last.calls[1].agent = "jira"
    /\ Get(last.payload, "action", "suggest") = "suggest"

\* C1: a suggest that reads the cache file written by an earlier live-fetch
\* suggest returns ticket records equal to the ones that suggest returned
\* (key, summary, url, labels and extra all preserved).
C1_CacheRoundTrip ==
    (IsSuggest /\ last.source = "cache" /\ written # NotWritten)
        => last.tickets = written.tickets

\* The cache file holds invalid content: it is not JSON text, or its JSON is
\* not a sequence of ticket records (null, a non-empty object, a list with an
\* item that is no object or whose status is null).
InvalidContent(file) ==
    /\ file.kind # "absent"
    /\ \/ file.kind # "json"
       \/ file.doc.t = "null"
       \/ file.doc.t = "object" /\ DOMAIN file.doc.items[1].v # {}
       \/ /\ file.doc.t = "list"
          /\ \E i \in 1..Len(file.doc.items) :
                 \/ file.doc.items[i].t # "obj"
                 \/ /\ "fields" \in DOMAIN file.doc.items[i].v
                    /\ "status" \in DOMAIN file.doc.items[i].v.fields
                    /\ file.doc.items[i].v.fields.status = JNull

\* The tracker process answered a list command with records that normalise.
LiveFetchSucceeds(proc) ==
    /\ proc.rc = 0
    /\ proc.stdout.kind \in {"empty", "blank", "json"}
    /\ proc.stdout.kind = "json" /\ Truthy(proc.stdout.doc)
           => NormaliseError(proc.stdout.doc) = None

\* The tickets a successful live fetch yields.
LiveTickets(proc) ==
    IF proc.stdout.kind = "json" /\ Truthy(proc.stdout.doc)
    THEN Normalise(proc.stdout.doc) ELSE <<>>

\* C2: when the cache file holds invalid content, suggest deletes it and
\* invokes the tracker CLI exactly once; no error comes from the cache (an
\* error is raised only when the live fetch itself fails); when the live
\* fetch succeeds its tickets are returned and a freshly written cache file
\* holding them is left behind.
C2_CorruptCacheRecovered ==
    (IsSuggest /\ InvalidContent(last.cache_before)) =>
        /\ last.deleted
        /\ last.cmds = <<ListCommand>>
        /\ Len(last.procs) = 1
        /\ (last.error = None) = LiveFetchSucceeds(last.procs[1])
        /\ last.error = None =>
               /\ last.tickets = LiveTickets(last.procs[1])
               /\ cache = DumpTickets(last.tickets)
               /\ last.wrote
        /\ last.error # None => cache = NoFile

\* C2 witness: a corrupted cache was replaced after a live fetch of tickets.
C2_Witness ==
    /\ IsSuggest
    /\ InvalidContent(last.cache_before)
    /\ last.error = None
    /\ last.tickets # <<>>
    /\ cache = DumpTickets(last.tickets)

\* C3: the slug of every ticket is non-empty, consists only of characters of
\* [a-z0-9_-] and has length at most 80 (here: the slug under which
\* initialise_workspace filed the context's worktree directory).
C3_SlugSafe ==
    ctx # NoCtx =>
        LET sl == ctx.worktree_path.name
        IN  /\ sl # <<>>
            /\ \A i \in 1..Len(sl) : sl[i] \in SlugChars
            /\ Len(sl) <= SlugMax

\* x occurs in seq
Occurs(seq, x) == \E i \in 1..Len(seq) : seq[i] = x

\* The index of the first occurrence of x in seq
FirstIndex(seq, x) == CHOOSE i \in 1..Len(seq) :
                          seq[i] = x /\ \A j \in 1..(i - 1) : seq[j] # x

\* merged is all de-duplicated, keeping the first occurrence of each entry:
\* no entry twice, the same entries, in the order of their first occurrences.
IsDedupOf(merged, all) ==
    /\ \A i, j \in 1..Len(merged) : i # j => merged[i] # merged[j]
    /\ \A x \in Actions : Occurs(merged, x) <=> Occurs(all, x)
    /\ \A i, j \in 1..Len(merged) :
           i < j => FirstIndex(all, merged[i]) < FirstIndex(all, merged[j])

\* The last operation was an initialise_workspace or update_quick_actions
\* call that returned.
EnvCallReturned ==
    /\ last.op \in {"initialise_workspace", "update_quick_actions"}
    /\ last.error = None

\* The extras of the call: none for initialise_workspace.
LastExtras == IF last.op = "update_quick_actions" THEN last.extras ELSE <<>>

\* C4 as stated: after every initialise_workspace or update_quick_actions
\* call the context's quick_actions holds no duplicate and equals the
\* configured defaults followed by the call's extras, de-duplicated keeping
\* first occurrences.
C4_MergedAfterEveryCall ==
    (EnvCallReturned /\ ctx # NoCtx) =>
        IsDedupOf(ctx.quick_actions, config.quick_actions \o LastExtras)

\* C4 amended: the same, on an orchestrator whose agent list holds the
\* environment-enrichment agent; and repeating a call with the same extras
\* leaves the list as it is.
C4_MergedWithReactAgent ==
    /\ [](_agent_of_type("react") => C4_MergedAfterEveryCall)
    /\ [][(/\ _agent_of_type("react")
           /\ EnvCallReturned
           /\ ctx # NoCtx
           /\ last'.op = "update_quick_actions"
           /\ last'.extras = LastExtras)
          => ctx'.quick_actions = ctx.quick_actions]_vars

\* C4 witness: configured [a, b] plus extras [b, c] gave [a, b, c].
C4_Witness ==
    /\ _agent_of_type("react")
    /\ last.op = "update_quick_actions"
    /\ config.quick_actions = <<"a", "b">>
    /\ last.extras = <<"b", "c">>
    /\ ctx # NoCtx
    /\ ctx.quick_actions = <<"a", "b", "c">>

\* C5: in the env merge of the enrichment agent caller keys overwrite
\* configured keys: a key the caller set keeps the caller's value through
\* handle, also when the configured extra env defines it; a key present in
\* only one of the two maps keeps its value.
C5_CallerEnvWins ==
    [][(/\ ctx # NoCtx
        /\ last'.op = "update_quick_actions"
        /\ Len(last'.calls) = 1)
       => /\ \A k \in DOMAIN ctx.env :
                 ctx.env[k] = "caller" => ctx'.env[k] = "caller"
          /\ \A k \in (DOMAIN ctx.env) \ (DOMAIN config.extra_env) :
                 ctx'.env[k] = ctx.env[k]
          /\ \A k \in (DOMAIN config.extra_env) \ (DOMAIN ctx.env) :
                 ctx'.env[k] = config.extra_env[k]]_vars

\* The worktree agent's add ran both commands and the tool printed a listing.
AddListed ==
    /\ last.op = "worktree.handle"
    /\ Get(last.payload, "action", None) = "add"
    /\ Len(last.procs) = 2
    /\ last.procs[1].rc = 0
    /\ last.procs[2].rc = 0
    /\ last.procs[2].stdout.kind \in {"empty", "json"}
    /\ \A i \in 1..Len(last.procs[2].stdout.doc.items) :
           last.procs[2].stdout.doc.items[i].t = "obj"

\* The branch requested: the payload's, else the context ticket's slug.
RequestedBranch ==
    IF "branch" \in DOMAIN last.payload /\ last.payload.branch # <<>>
    THEN last.payload.branch ELSE slug(last.ticket)

\* C6: after a successful add, for every listing the tool prints, add returns
\* the path (as pathlib prints it) of the first record whose branch equals
\* the requested branch exactly, and an absent path, with no error, when no
\* record's branch equals it.
C6_AddLookup ==
    AddListed =>
        LET items == last.procs[2].stdout.doc.items
            hits == {i \in 1..Len(items) : items[i].v.branch = RequestedBranch}
        IN  /\ last.error = None
            /\ last.branch = RequestedBranch
            /\ hits = {} => last.path = NoPath
            /\ hits # {} =>
                   \E i \in hits :
                       /\ \A j \in hits : i <= j
                       /\ last.path = PathStr(items[i].v.path)

\* C6 witness: two records carry the requested branch at different paths and
\* add returned the first one's path.
C6_Witness ==
    /\ AddListed
    /\ LET items == last.procs[2].stdout.doc.items
       IN  /\ Len(items) = 2
           /\ items[1].v.branch = RequestedBranch
           /\ items[2].v.branch = RequestedBranch
           /\ PathStr(items[1].v.path) # PathStr(items[2].v.path)
           /\ last.path = PathStr(items[1].v.path)

\* C6 witness of the absent path: records are listed, none with the branch.
C6_WitnessAbsent ==
    /\ AddListed
    /\ last.procs[2].stdout.doc.items # <<>>
    /\ last.path = NoPath
    /\ last.error = None

\* The orchestrator runs the default agent set.
DefaultAgentSet == agents \in {_default_agents(TRUE), _default_agents(FALSE)}

\* C7: with the default agent set a successful plan(ticket) calls, in this
\* order and once each, the enrichment agent on the fresh context, the
\* worktree agent's add with branch = ticket slug, and the coding agent with
\* a goal made from the ticket key, and returns that agent's prompt and
\* assistant; initialise_workspace on its own never calls the worktree agent.
C7_PlanOrder ==
    /\ (last.op = "plan" /\ last.error = None /\ DefaultAgentSet) =>
           LET t == last.ticket
               goal == <<"Implement Jira ticket ">> \o t.key
           IN  /\ Len(last.calls) = 3
               /\ last.calls[1] = Call("react", EmptyDict)
               /\ last.calls[2] =
                      Call("worktree", [action |-> "add", branch |-> slug(t)])
               /\ last.calls[3].agent = "coding"
               /\ last.calls[3].payload.goal = goal
               /\ Len(last.cmds) = 2
               /\ last.cmds[1].verb = "worktree add"
               /\ last.cmds[1].target = slug(t)
               /\ last.cmds[2].verb = "worktree list"
               /\ last.context.ticket = t
               /\ IsDedupOf(last.context.quick_actions, config.quick_actions)
               /\ last.plan # NoPlan
               /\ last.plan.assistant = CodingAssistant
               /\ SubSeq(last.plan.prompt, 1, Len(goal)) = goal
    /\ last.op = "initialise_workspace" =>
           \A i \in 1..Len(last.calls) : last.calls[i].agent # "worktree"

\* C7 witness: a plan with the default agent set returned a prompt.
C7_Witness ==
    /\ last.op = "plan"
    /\ last.error = None
    /\ DefaultAgentSet
    /\ last.plan # NoPlan
    /\ last.path # NoPath

\* The last operation ran external commands and one exited non-zero.
CommandFailed ==
    /\ last.op \in {"plan", "fetch_ticket_suggestions"}
    /\ \E i \in 1..Len(last.procs) : last.procs[i].rc # 0

\* C8: when an external command run for plan or for a live-fetch suggest
\* exits non-zero, the operation fails with a CLIError carrying that command,
\* its exit code, stdout and stderr; the command ran once and was the last
\* one run, no later agent is called, no prompt or ticket list is returned
\* and the cache file is not written.
C8_FailurePropagates ==
    CommandFailed =>
        LET n == Len(last.procs)
        IN  /\ \A i \in 1..n : last.procs[i].rc # 0 => i = n
            /\ Len(last.cmds) = n
            /\ \A i \in 1..(n - 1) : last.cmds[i] # last.cmds[n]
            /\ last.error = "CLIError"
            /\ last.cli_error =
                   [command |-> last.cmds[n], exit_code |-> last.procs[n].rc,
                    stdout |-> last.procs[n].stdout,
                    stderr |-> last.procs[n].stderr]
            /\ last.op = "plan" =>
                   /\ last.plan = NoPlan
                   /\ \A i \in 1..Len(last.calls) :
                          last.calls[i].agent # "coding"
            /\ last.op = "fetch_ticket_suggestions" =>
                   /\ last.tickets = <<>>
                   /\ ~last.wrote
                   /\ cache = IF last.deleted THEN NoFile
                              ELSE last.cache_before

\* C8 witness: plan's list command exited 1 with stderr "not found".
C8_Witness ==
    /\ last.op = "plan"
    /\ Len(last.procs) = 2
    /\ last.procs[2].rc = 1
    /\ last.procs[2].stderr = "not found"
    /\ last.error = "CLIError"
    /\ last.cli_error.stderr = "not found"

\* C8 witness for suggest: the tracker's list command failed over a
\* corrupted cache, which stays deleted.
C8_WitnessSuggest ==
    /\ last.op = "fetch_ticket_suggestions"
    /\ CommandFailed
    /\ last.deleted
    /\ cache = NoFile

\* The actions each multi-action agent supports.
Supported(agent) ==
    IF agent = "jira" THEN {"suggest", "detail"} ELSE {"add", "remove", "list"}

\* The last operation was a direct handle call whose payload carries an
\* action value the agent does not support.
UnsupportedCall(l) ==
    /\ l.op \in {"jira.handle", "worktree.handle"}
    /\ "action" \in DOMAIN l.payload
    /\ l.payload.action \notin Supported(l.calls[1].agent)

\* C9: handle with a payload whose action value is not one of the agent's
\* actions fails with an error naming that value, runs no external command,
\* and leaves the cache file and the context as they were.
C9_UnsupportedAction ==
    /\ [](UnsupportedCall(last) =>
              /\ last.error = "ValueError"
              /\ last.named = last.payload.action
              /\ last.cmds = <<>>
              /\ last.procs = <<>>)
    /\ [][UnsupportedCall(last') =>
              /\ cache' = cache
              /\ written' = written
              /\ ctx' = ctx]_vars

\* C9 witnesses: each agent refused an action of the other agent.
C9_Witness ==
    /\ UnsupportedCall(last)
    /\ last.op = "jira.handle"
    /\ last.payload.action = "add"
    /\ last.error = "ValueError"

C9_WitnessWorktree ==
    /\ UnsupportedCall(last)
    /\ last.op = "worktree.handle"
    /\ last.payload.action = "suggest"
    /\ last.error = "ValueError"

\* C10: a plan that fails for lack of a coding agent fails before the
\* worktree agent's external add command has been invoked.
C10_MissingAgentBeforeAdd ==
    (last.op = "plan" /\ last.error = "RuntimeError") =>
        \A i \in 1..Len(last.cmds) : last.cmds[i].verb # "worktree add"

\* The last operation was a plan that returned a prompt.
PlanReturned == last.op = "plan" /\ last.error = None

\* The context a plan for ticket t is expected to render: quick actions and
\* env taken from the configuration alone (merged by the enrichment agent
\* when the agent list holds one), worktree path repo root/.wtm/workspaces/slug.
ExpectedContext(t) ==
    [repo_root |-> RepoRoot,
     worktree_path |-> [base |-> RepoRoot, parts |-> <<".wtm", "workspaces">>,
                        name |-> slug(t)],
     ticket |-> t,
     quick_actions |-> IF _agent_of_type("react")
                       THEN DedupFirst(config.quick_actions)
                       ELSE config.quick_actions,
     env |-> config.extra_env]

\* C11: the prompt returned by plan(ticket) depends only on the configuration
\* and the ticket: whatever initialise_workspace and update_quick_actions
\* calls came before, and whatever path the add lookup returned, the prompt
\* is the rendering of a context whose quick actions and env come from the
\* configuration alone and whose worktree path is
\* repo root/.wtm/workspaces/slug.
C11_PromptFromConfigAndTicket ==
    PlanReturned =>
        last.plan =
            CodingAgent_handle([goal |-> <<"Implement Jira ticket ">>
                                         \o last.ticket.key,
                                assistant |-> CodingAssistant],
                               ExpectedContext(last.ticket))

\* The part of C11 about earlier contexts: the context plan renders holds the
\* configuration's quick actions and env, none of the extras merged into a
\* context built before.
C11_EarlierContextIgnored ==
    PlanReturned =>
        /\ last.context.quick_actions = ExpectedContext(last.ticket).quick_actions
        /\ last.context.env = config.extra_env

\* The part of C11 about the configuration: no operation modifies it.
C11_ConfigNeverModified == [][config' = config]_vars

\* A plan returned a prompt while the caller holds an earlier context with
\* extras merged into it.
C11_WitnessExtrasHeld ==
    /\ PlanReturned
    /\ ctx # NoCtx
    /\ \E i \in 1..Len(ctx.quick_actions) :
           ~Occurs(config.quick_actions, ctx.quick_actions[i])

====
